---------------------------- MODULE Spec2Model ----------------------------
(***************************************************************************)
(* A model of the BLS command-line tool of src/src/main.rs.                *)
(*                                                                         *)
(* One run of the tool is one process: the command line is parsed, one     *)
(* arm of the match in main() runs, and the process ends after printing a  *)
(* line on stdout or after a panic raised by an expect().                  *)
(*                                                                         *)
(* The arms are translated step by step from main.rs: hex decoding, the    *)
(* conversion to a fixed-size array, the deserialisation, the group        *)
(* operation and the printing.  The cryptographic library the arms call    *)
(* (the sylow crate: field, groups, pairing, hash to curve) is not part of *)
(* the source; it is modelled algebraically:                               *)
(*   - the groups G1 and G2 are cyclic of prime order GroupOrder and a     *)
(*     point is held as its discrete logarithm to the generator;           *)
(*   - the pairing of a*G1 and b*G2 is the target-group element with       *)
(*     exponent a*b mod GroupOrder (bilinear and non-degenerate);          *)
(*   - hash-to-curve is injective on the messages of the model and never   *)
(*     yields the identity;                                                *)
(*   - a point is serialised as its affine coordinates, each a 32-byte     *)
(*     big-endian element of the base field.                               *)
(* The field modulus and the group order are scaled down from the BN254    *)
(* values, keeping their order: FpModulus > GroupOrder.                    *)
(***************************************************************************)
EXTENDS Integers, Sequences, FiniteSets, TLC

VARIABLES pc, last, prev, entropy

vars == <<pc, last, prev, entropy>>

-----------------------------------------------------------------------------
(* Program constants *)

\* main.rs:8
SECURITY_BITS == 128

\* main.rs:7
DST == "WARLOCK-CHAOS-V01-CS01-SHA-256"

\* main.rs:67 and 81, [u8; 32]
SecretKeyLen == 32

\* main.rs:111 and 128, [u8; 64]
SignatureLen == 64

\* main.rs:96 and 137, [u8; 128]
PublicKeyLen == 128

\* The modulus p of the base field Fp, the type main.rs decodes a secret into
\* (main.rs:70, 84).  Scaled down; on BN254 p = r + 6u^2 > r.
FpModulus == 11

\* The order r of G1, G2 and of the generators main.rs multiplies
\* (main.rs:73, 89).  Scaled down, prime.
GroupOrder == 5

\* Width of one serialised field element: 32 = 64 / 2 = 128 / 4.
FpLen == 32

-----------------------------------------------------------------------------
(* Bounds of the model *)

\* Longest list given to aggregate-keys / aggregate-signatures.
MaxList == 2

\* Longest list of the two-run specification SpecSeq.
SeqMaxList == 1

-----------------------------------------------------------------------------
(* Hex strings.  A character is a code: 0..9 are '0'..'9', 10..15 are      *)
(* 'a'..'f', 16..21 are 'A'..'F' and NonHexChar is any other character.    *)

NonHexChar == 22

IsHexChar(c) == c \in 0..21

HexVal(c) == IF c < 16 THEN c ELSE c - 6

\* hex::decode: an odd length or a character outside [0-9a-fA-F] is an Err.
HexDecode(s) ==
    IF Len(s) % 2 = 1 \/ \E i \in 1..Len(s) : ~IsHexChar(s[i])
    THEN [ok |-> FALSE, bytes |-> <<>>]
    ELSE [ok |-> TRUE,
          bytes |-> [i \in 1..(Len(s) \div 2) |->
                        16 * HexVal(s[2 * i - 1]) + HexVal(s[2 * i])]]

\* hex::encode: two lower-case digits per byte.
HexEncode(bytes) ==
    [i \in 1..(2 * Len(bytes)) |->
        IF i % 2 = 1 THEN bytes[(i + 1) \div 2] \div 16
                     ELSE bytes[i \div 2] % 16]

\* The upper-case spelling of a hex string.
UpperCase(s) == [i \in 1..Len(s) |-> IF s[i] \in 10..15 THEN s[i] + 6 ELSE s[i]]

-----------------------------------------------------------------------------
(* The base field Fp *)

RECURSIVE Pow256(_)
Pow256(e) == IF e = 0 THEN 1 ELSE 256 * Pow256(e - 1)

\* Fp::to_be_bytes: 32 bytes, most significant first (v < 2^24 in the model).
FpToBeBytes(v) ==
    [i \in 1..FpLen |->
        IF FpLen - i > 2 THEN 0 ELSE (v \div Pow256(FpLen - i)) % 256]

\* a < b for two byte strings of one length read as big-endian numbers.
RECURSIVE BeLess(_, _, _)
BeLess(a, b, i) ==
    IF i > Len(a) THEN FALSE
    ELSE IF a[i] # b[i] THEN a[i] < b[i]
    ELSE BeLess(a, b, i + 1)

\* The big-endian value of a byte string below 2^24.
BeValue(a) ==
    LET n == Len(a)
    IN  a[n] + 256 * a[n - 1] + 65536 * a[n - 2]

\* Fp::from_be_bytes: None unless the value is canonical (below the modulus).
FpFromBeBytes(bytes) ==
    IF BeLess(bytes, FpToBeBytes(FpModulus), 1)
    THEN [ok |-> TRUE, val |-> BeValue(bytes)]
    ELSE [ok |-> FALSE, val |-> 0]

-----------------------------------------------------------------------------
(* The groups.  A point of G1 or G2 is its discrete logarithm in           *)
(* 0..GroupOrder-1; 0 is the identity and 1 the generator.                 *)

G1Zero == 0

G2Zero == 0

G1Generator == 1

G2Generator == 1

\* G1Projective + G1Projective
G1Add(a, b) == (a + b) % GroupOrder

\* G2Projective + G2Projective
G2Add(a, b) == (a + b) % GroupOrder

\* G1Projective * Fp: the scalar is a field element, the point has order r.
G1Mul(pt, k) == (pt * k) % GroupOrder

\* G2Projective * Fp
G2Mul(pt, k) == (pt * k) % GroupOrder

\* pairing(&G1Projective, &G2Projective): the exponent of the target-group
\* element e(G1, G2)^(a*b).
Pairing(a, b) == (a * b) % GroupOrder

\* The affine coordinates (x, y) of a point of G1; the identity is (0, 1).
G1Coords(k) == <<k, (k * k + 1) % FpModulus>>

\* The affine coordinates (x.c0, x.c1, y.c0, y.c1) of a point of the twist.
G2Coords(k) == <<k, (k + 1) % FpModulus, (k * k + 1) % FpModulus, (2 * k) % FpModulus>>

\* The twist curve has a cofactor: the coordinates with x.c0 >= GroupOrder
\* satisfy the curve equation and lie outside the subgroup of order r.
G2OnCurve(c) == c = G2Coords(c[1])

G2InSubgroup(c) == c[1] < GroupOrder

\* Big-endian serialisation of a coordinate list, FpLen bytes each.
RECURSIVE CoordsToBeBytes(_)
CoordsToBeBytes(c) ==
    IF c = <<>> THEN <<>> ELSE FpToBeBytes(Head(c)) \o CoordsToBeBytes(Tail(c))

\* G1Affine::from(G1Projective).to_be_bytes(): 64 bytes.
G1ToBeBytes(pt) == CoordsToBeBytes(G1Coords(pt))

\* G2Affine::from(G2Projective).to_be_bytes(): 128 bytes.
G2ToBeBytes(pt) == CoordsToBeBytes(G2Coords(pt))

\* The field elements of a byte string of n * FpLen bytes.
FpChunk(bytes, j) == FpFromBeBytes(SubSeq(bytes, (j - 1) * FpLen + 1, j * FpLen))

\* G1Affine::from_be_bytes: None for a non-canonical coordinate and for
\* coordinates that are not those of a point of the group.
G1FromBeBytes(bytes) ==
    LET x == FpChunk(bytes, 1)
        y == FpChunk(bytes, 2)
    IN  IF x.ok /\ y.ok /\ (\E k \in 0..(GroupOrder - 1) : G1Coords(k) = <<x.val, y.val>>)
        THEN [ok |-> TRUE, pt |-> x.val]
        ELSE [ok |-> FALSE, pt |-> 0]

\* G2Affine::from_be_bytes: None for a non-canonical coordinate, a point off
\* the curve and a point outside the subgroup.
G2FromBeBytes(bytes) ==
    LET f == [j \in 1..4 |-> FpChunk(bytes, j)]
        c == [j \in 1..4 |-> f[j].val]
    IN  IF (\A j \in 1..4 : f[j].ok) /\ G2OnCurve(c) /\ G2InSubgroup(c)
        THEN [ok |-> TRUE, pt |-> c[1]]
        ELSE [ok |-> FALSE, pt |-> 0]

-----------------------------------------------------------------------------
(* Hash to curve *)

Messages == {"a", "b", "c"}

\* XMDExpander::<Keccak256>::new(dst, security_bits)
XMDExpander(dst, bits) == [dst |-> dst, bits |-> bits]

\* The expander both Sign and Verify build (main.rs:86, 145).
Expander == XMDExpander(DST, SECURITY_BITS)

MsgScalar(m) == CASE m = "a" -> 1 [] m = "b" -> 2 [] OTHER -> 3

DstScalar(e) == IF e = XMDExpander(DST, SECURITY_BITS) THEN 1 ELSE 2

\* G1Projective::hash_to_curve(&expander, message.as_bytes()): a point that
\* depends on the tag, the security level and the message; injective in the
\* message and never the identity.
HashToCurve(e, m) == [ok |-> TRUE, pt |-> (DstScalar(e) * MsgScalar(m)) % GroupOrder]

-----------------------------------------------------------------------------
(* What one run leaves behind: a line on stdout (kind "ok") or a panic.    *)
(* "at" is the list index the aggregation loop stopped at (0: none) and    *)
(* "expanders" the expanders the run built.                                *)

Out(kind, msg, hex, valid, sk, pk, at, exps) ==
    [kind |-> kind, msg |-> msg, hex |-> hex, valid |-> valid,
     secretKey |-> sk, publicKey |-> pk, at |-> at, expanders |-> exps]

\* println!("{}", hex::encode(..))
PrintHex(hex, exps) == Out("ok", "", hex, FALSE, <<>>, <<>>, 0, exps)

\* println!("{}", json!({ "valid": .. }))
PrintValid(b, exps) == Out("ok", "", <<>>, b, <<>>, <<>>, 0, exps)

\* println!("{}", json!({ "secretKey": .., "publicKey": .. }))
PrintKeys(sk, pk) == Out("ok", "", <<>>, FALSE, sk, pk, 0, {})

\* expect(msg) on an Err or a None: the process panics and prints nothing on stdout.
Panic(msg, at, exps) == Out("panic", msg, <<>>, FALSE, <<>>, <<>>, at, exps)

-----------------------------------------------------------------------------
(* The arms of main() *)

\* Vec<u8>::try_into::<[u8; N]>(): Err unless the vector holds exactly n bytes.
TryInto(bytes, n) == [ok |-> Len(bytes) = n, arr |-> bytes]

\* The entropy source fails: KeyPair::generate() returns a KeyPair, not a
\* Result, so a failure of OsRng can only end the process in a panic.
EntropyFailure == GroupOrder

EntropyValues == 0..GroupOrder

\* GenerateKeysCmd with the scalar multiplication lost: the generator itself
\* is printed as the public key.
GenerateKeysCmdNoMul(e) ==
    IF e = EntropyFailure THEN Panic("entropy source failed", 0, {})
    ELSE PrintKeys(HexEncode(FpToBeBytes(e)), HexEncode(G2ToBeBytes(G2Generator)))

\* Commands::GenerateKeys; e is what the entropy source delivers.
GenerateKeysCmd(e) ==
    IF e = EntropyFailure THEN Panic("entropy source failed", 0, {})
    ELSE LET secret_key == e
             public_key == G2Mul(G2Generator, secret_key)
         IN  PrintKeys(HexEncode(FpToBeBytes(secret_key)),
                       HexEncode(G2ToBeBytes(public_key)))

\* The three steps that turn the --secret argument into a field element.
DecodeSecret(secret) ==
    LET secret_key_bytes == HexDecode(secret)
        secret_key_array == TryInto(secret_key_bytes.bytes, SecretKeyLen)
        secret_key == FpFromBeBytes(secret_key_array.arr)
    IN  IF ~secret_key_bytes.ok THEN [ok |-> FALSE, msg |-> "Invalid hex in secret key", val |-> 0]
        ELSE IF ~secret_key_array.ok THEN [ok |-> FALSE, msg |-> "Secret key must be 32 bytes", val |-> 0]
        ELSE IF ~secret_key.ok THEN [ok |-> FALSE, msg |-> "Failed to deserialize secret key", val |-> 0]
        ELSE [ok |-> TRUE, msg |-> "", val |-> secret_key.val]

\* Commands::PublicKeyFromSecret
PublicKeyFromSecretCmd(secret) ==
    LET secret_key == DecodeSecret(secret)
    IN  IF ~secret_key.ok THEN Panic(secret_key.msg, 0, {})
        ELSE LET public_key == G2Mul(G2Generator, secret_key.val)
             IN  PrintHex(HexEncode(G2ToBeBytes(public_key)), {})

\* The expander Commands::Sign builds.
SignExpander == XMDExpander(DST, SECURITY_BITS)

\* The expander Commands::Verify builds.
VerifyExpander == XMDExpander(DST, SECURITY_BITS)

\* SignCmd multiplying the generator of G1 instead of the hashed message.
SignCmdOnGenerator(secret, message) ==
    LET secret_key == DecodeSecret(secret)
    IN  IF ~secret_key.ok THEN Panic(secret_key.msg, 0, {})
        ELSE PrintHex(HexEncode(G1ToBeBytes(G1Mul(G1Generator, secret_key.val))),
                      {SignExpander})

\* SignCmd blinding the secret with a scalar drawn from the entropy source.
SignCmdBlinded(secret, message) ==
    LET secret_key == DecodeSecret(secret)
        hashed_message == HashToCurve(SignExpander, message)
    IN  IF ~secret_key.ok THEN Panic(secret_key.msg, 0, {})
        ELSE PrintHex(HexEncode(G1ToBeBytes(
                          G1Mul(hashed_message.pt, secret_key.val + entropy))),
                      {SignExpander})

\* Commands::Sign
SignCmd(secret, message) ==
    LET secret_key == DecodeSecret(secret)
        expander == SignExpander
        hashed_message == HashToCurve(expander, message)
    IN  IF ~secret_key.ok THEN Panic(secret_key.msg, 0, {})
        ELSE IF ~hashed_message.ok THEN Panic("Hashing failed", 0, {expander})
        ELSE LET signature == G1Mul(hashed_message.pt, secret_key.val)
             IN  PrintHex(HexEncode(G1ToBeBytes(signature)), {expander})

\* The three steps that turn one hex public key into a point of G2.
DecodePublicKey(key_hex) ==
    LET key_bytes == HexDecode(key_hex)
        key_array == TryInto(key_bytes.bytes, PublicKeyLen)
        pubkey_affine == G2FromBeBytes(key_array.arr)
    IN  IF ~key_bytes.ok THEN [ok |-> FALSE, msg |-> "Invalid hex in public key", pt |-> 0]
        ELSE IF ~key_array.ok THEN [ok |-> FALSE, msg |-> "Public key must be 128 bytes", pt |-> 0]
        ELSE IF ~pubkey_affine.ok THEN [ok |-> FALSE, msg |-> "Invalid public key", pt |-> 0]
        ELSE [ok |-> TRUE, msg |-> "", pt |-> pubkey_affine.pt]

\* The three steps that turn one hex signature into a point of G1.
DecodeSignature(sig_hex) ==
    LET sig_bytes == HexDecode(sig_hex)
        sig_array == TryInto(sig_bytes.bytes, SignatureLen)
        sig_affine == G1FromBeBytes(sig_array.arr)
    IN  IF ~sig_bytes.ok THEN [ok |-> FALSE, msg |-> "Invalid hex in signature", pt |-> 0]
        ELSE IF ~sig_array.ok THEN [ok |-> FALSE, msg |-> "Signature must be 64 bytes", pt |-> 0]
        ELSE IF ~sig_affine.ok THEN [ok |-> FALSE, msg |-> "Invalid signature", pt |-> 0]
        ELSE [ok |-> TRUE, msg |-> "", pt |-> sig_affine.pt]

\* The for loop of Commands::AggregateKeys from element i on, agg_key being
\* the sum so far; the aggregate is printed after the loop.
RECURSIVE AggregateKeysLoop(_, _, _)
AggregateKeysLoop(public_keys, i, agg_key) ==
    IF i > Len(public_keys) THEN PrintHex(HexEncode(G2ToBeBytes(agg_key)), {})
    ELSE LET pubkey == DecodePublicKey(public_keys[i])
         IN  IF ~pubkey.ok THEN Panic(pubkey.msg, i, {})
             ELSE AggregateKeysLoop(public_keys, i + 1, G2Add(agg_key, pubkey.pt))

\* AggregateKeysCmd refusing the empty list.
AggregateKeysNonEmpty(public_keys) ==
    IF public_keys = <<>> THEN Panic("No public keys", 0, {})
    ELSE AggregateKeysLoop(public_keys, 1, G2Zero)

\* AggregateKeysCmd skipping the elements that fail to decode.
RECURSIVE AggregateKeysSkipLoop(_, _, _)
AggregateKeysSkipLoop(public_keys, i, agg_key) ==
    IF i > Len(public_keys) THEN PrintHex(HexEncode(G2ToBeBytes(agg_key)), {})
    ELSE LET pubkey == DecodePublicKey(public_keys[i])
         IN  AggregateKeysSkipLoop(public_keys, i + 1,
                 IF pubkey.ok THEN G2Add(agg_key, pubkey.pt) ELSE agg_key)

AggregateKeysSkipInvalid(public_keys) == AggregateKeysSkipLoop(public_keys, 1, G2Zero)

\* Commands::AggregateKeys
AggregateKeysCmd(public_keys) == AggregateKeysLoop(public_keys, 1, G2Zero)

\* The for loop of Commands::AggregateSignatures.
RECURSIVE AggregateSignaturesLoop(_, _, _)
AggregateSignaturesLoop(signatures, i, agg_sig) ==
    IF i > Len(signatures) THEN PrintHex(HexEncode(G1ToBeBytes(agg_sig)), {})
    ELSE LET sig == DecodeSignature(signatures[i])
         IN  IF ~sig.ok THEN Panic(sig.msg, i, {})
             ELSE AggregateSignaturesLoop(signatures, i + 1, G1Add(agg_sig, sig.pt))

\* AggregateSignaturesCmd starting the sum at the generator instead of zero.
AggregateSignaturesFromGenerator(signatures) ==
    AggregateSignaturesLoop(signatures, 1, G1Generator)

\* Commands::AggregateSignatures
AggregateSignaturesCmd(signatures) == AggregateSignaturesLoop(signatures, 1, G1Zero)

\* VerifyCmd treating a failed pairing check as an error.
VerifyCmdStrict(signature, public_key, message) ==
    LET agg_signature == DecodeSignature(signature)
        agg_pubkey == DecodePublicKey(public_key)
        hashed_message == HashToCurve(VerifyExpander, message)
    IN  IF ~agg_signature.ok THEN Panic(agg_signature.msg, 0, {})
        ELSE IF ~agg_pubkey.ok THEN Panic(agg_pubkey.msg, 0, {})
        ELSE IF Pairing(agg_signature.pt, G2Generator)
                  # Pairing(hashed_message.pt, agg_pubkey.pt)
             THEN Panic("Verification failed", 0, {VerifyExpander})
             ELSE PrintValid(TRUE, {VerifyExpander})

\* VerifyCmd pairing the hashed message with the generator of G2 instead of
\* the public key, which is decoded and then ignored.
VerifyCmdIgnoresKey(signature, public_key, message) ==
    LET agg_signature == DecodeSignature(signature)
        agg_pubkey == DecodePublicKey(public_key)
        hashed_message == HashToCurve(VerifyExpander, message)
    IN  IF ~agg_signature.ok THEN Panic(agg_signature.msg, 0, {})
        ELSE IF ~agg_pubkey.ok THEN Panic(agg_pubkey.msg, 0, {})
        ELSE PrintValid(Pairing(agg_signature.pt, G2Generator)
                          = Pairing(hashed_message.pt, G2Generator),
                        {VerifyExpander})

\* Commands::Verify
VerifyCmd(signature, public_key, message) ==
    LET agg_signature == DecodeSignature(signature)
        agg_pubkey == DecodePublicKey(public_key)
        expander == VerifyExpander
        hashed_message == HashToCurve(expander, message)
    IN  IF ~agg_signature.ok THEN Panic(agg_signature.msg, 0, {})
        ELSE IF ~agg_pubkey.ok THEN Panic(agg_pubkey.msg, 0, {})
        ELSE IF ~hashed_message.ok THEN Panic("Hashing failed", 0, {expander})
        ELSE LET lhs == Pairing(agg_signature.pt, G2Generator)
                 rhs == Pairing(hashed_message.pt, agg_pubkey.pt)
             IN  PrintValid(lhs = rhs, {expander})

-----------------------------------------------------------------------------
(* The arguments the runs of the model are given *)

Zeros(n) == [i \in 1..n |-> 0]

\* The hex secret of value v, as generate-keys prints it.
SecretOf(v) == HexEncode(FpToBeBytes(v))

\* The hex signature / public key of a point, as the tool prints it.
SigOf(k) == HexEncode(G1ToBeBytes(k))

PkOf(k) == HexEncode(G2ToBeBytes(k))

\* s with its first character replaced by one that is no hex digit.
Spoil(s) == [s EXCEPT ![1] = NonHexChar]

\* Secrets: every value from 0 to the field modulus, one of them also in
\* upper case, 2^248, 31 and 33 bytes, an odd number of digits, a non-hex digit.
SecretPool ==
    {SecretOf(v) : v \in 0..FpModulus}
    \cup {UpperCase(SecretOf(FpModulus - 1)),
          HexEncode(<<1>> \o Zeros(SecretKeyLen - 1)),
          HexEncode(Zeros(SecretKeyLen - 1)),
          HexEncode(Zeros(SecretKeyLen + 1)),
          Tail(SecretOf(1)),
          Spoil(SecretOf(1))}

\* Signatures: every point of G1, one of them also in upper case, a pair of
\* coordinates off the curve, a coordinate equal to the modulus, 63 bytes,
\* a non-hex digit.
SignaturePool ==
    {SigOf(k) : k \in 0..(GroupOrder - 1)}
    \cup {UpperCase(SigOf(3)),
          HexEncode(CoordsToBeBytes(<<1, 3>>)),
          HexEncode(CoordsToBeBytes(<<FpModulus, 1>>)),
          HexEncode(Zeros(SignatureLen - 1)),
          Spoil(SigOf(1))}

\* Public keys: every point of G2, a point off the curve, a point of the
\* curve outside the subgroup, a coordinate equal to the modulus, 129 bytes,
\* a non-hex digit.
PublicKeyPool ==
    {PkOf(k) : k \in 0..(GroupOrder - 1)}
    \cup {HexEncode(CoordsToBeBytes(<<1, 2, 3, 3>>)),
          HexEncode(CoordsToBeBytes(G2Coords(GroupOrder))),
          HexEncode(CoordsToBeBytes(<<1, FpModulus, 2, 2>>)),
          HexEncode(Zeros(PublicKeyLen + 1)),
          Spoil(PkOf(1))}

\* The smaller argument sets of the two-run specification SpecSeq.
SeqSignaturePool == {SigOf(0), SigOf(1), SigOf(2), Spoil(SigOf(1))}

SeqPublicKeyPool == {PkOf(0), PkOf(1), PkOf(2), HexEncode(Zeros(PublicKeyLen + 1))}

SeqMessages == {"a", "b"}

\* The lists of at most n elements of pool.  The empty list is the command
\* line without the option: clap leaves a Vec argument empty then.
Lists(pool, n) == UNION {[1..k -> pool] : k \in 0..n}

Args(secret, message, signature, public_key, list) ==
    [secret |-> secret, message |-> message, signature |-> signature,
     public_key |-> public_key, list |-> list]

NoArgs == Args(<<>>, "", <<>>, <<>>, <<>>)

Run(cmd, args, out) == [cmd |-> cmd, args |-> args, out |-> out]

NoRun == Run("none", NoArgs, Panic("", 0, {}))

-----------------------------------------------------------------------------
(* The state: pc is "idle" between two runs and "done" when a run has      *)
(* printed or panicked; last is that run (command, arguments, outcome);    *)
(* prev is an earlier run an observer kept; entropy is what the operating  *)
(* system's entropy source delivers to the next run that asks.             *)

Init ==
    /\ pc = "idle"
    /\ last = NoRun
    /\ prev = NoRun
    /\ entropy \in EntropyValues

Finish(cmd, args, out) ==
    /\ pc = "idle"
    /\ pc' = "done"
    /\ last' = Run(cmd, args, out)
    /\ UNCHANGED prev

GenerateKeys ==
    /\ Finish("generate-keys", NoArgs, GenerateKeysCmd(entropy))
    /\ entropy' \in EntropyValues

PublicKeyFromSecret(secrets) ==
    \E secret \in secrets :
        /\ Finish("public-key-from-secret", Args(secret, "", <<>>, <<>>, <<>>),
                  PublicKeyFromSecretCmd(secret))
        /\ UNCHANGED entropy

Sign(secrets, messages) ==
    \E secret \in secrets, message \in messages :
        /\ Finish("sign", Args(secret, message, <<>>, <<>>, <<>>),
                  SignCmd(secret, message))
        /\ UNCHANGED entropy

AggregateKeys(keys, n) ==
    \E public_keys \in Lists(keys, n) :
        /\ Finish("aggregate-keys", Args(<<>>, "", <<>>, <<>>, public_keys),
                  AggregateKeysCmd(public_keys))
        /\ UNCHANGED entropy

AggregateSignatures(sigs, n) ==
    \E signatures \in Lists(sigs, n) :
        /\ Finish("aggregate-signatures", Args(<<>>, "", <<>>, <<>>, signatures),
                  AggregateSignaturesCmd(signatures))
        /\ UNCHANGED entropy

Verify(sigs, keys, messages) ==
    \E signature \in sigs, public_key \in keys, message \in messages :
        /\ Finish("verify", Args(<<>>, message, signature, public_key, <<>>),
                  VerifyCmd(signature, public_key, message))
        /\ UNCHANGED entropy

\* The process ends; nothing of it is left.
Exit ==
    /\ pc = "done"
    /\ pc' = "idle"
    /\ last' = NoRun
    /\ UNCHANGED <<prev, entropy>>

\* The process ends and the observer keeps what it was given and what it printed.
Remember ==
    /\ pc = "done"
    /\ pc' = "idle"
    /\ prev' = last
    /\ last' = NoRun
    /\ UNCHANGED entropy

Next ==
    \/ GenerateKeys
    \/ PublicKeyFromSecret(SecretPool)
    \/ Sign(SecretPool, Messages)
    \/ AggregateKeys(PublicKeyPool, MaxList)
    \/ AggregateSignatures(SignaturePool, MaxList)
    \/ Verify(SignaturePool, PublicKeyPool, Messages)
    \/ Exit

Spec == Init /\ [][Next]_vars

NextSeq ==
    \/ GenerateKeys
    \/ PublicKeyFromSecret(SecretPool)
    \/ Sign(SecretPool, SeqMessages)
    \/ AggregateKeys(SeqPublicKeyPool, SeqMaxList)
    \/ AggregateSignatures(SeqSignaturePool, SeqMaxList)
    \/ Verify(SeqSignaturePool, SeqPublicKeyPool, SeqMessages)
    \/ Exit
    \/ Remember

SpecSeq == Init /\ [][NextSeq]_vars

-----------------------------------------------------------------------------
(* Properties *)

Done(cmd) == pc = "done" /\ last.cmd = cmd

\* The value of an accepted secret.
SecretValue(s) == DecodeSecret(s).val

\* s is a secret sign and public-key-from-secret accept.
Accepted(s) == DecodeSecret(s).ok

\* C1: for every secret s that sign and public-key-from-secret accept and
\* every message m, verify run on the signature sign(s, m) printed, the public
\* key public-key-from-secret(s) printed and m prints valid = true.
SignVerifyRoundTrip ==
    Done("verify") =>
        \A s \in SecretPool :
            LET sig == SignCmd(s, last.args.message)
                pk == PublicKeyFromSecretCmd(s)
            IN  (/\ sig.kind = "ok"
                 /\ pk.kind = "ok"
                 /\ last.args.signature = sig.hex
                 /\ last.args.public_key = pk.hex)
                => (last.out.kind = "ok" /\ last.out.valid)

\* A verify run on what sign and public-key-from-secret printed for a secret
\* above the group order, on a message that does not hash to the generator.
SignVerifyRoundTripWitness ==
    /\ Done("verify")
    /\ last.args.message = "b"
    /\ \E s \in SecretPool :
          /\ Accepted(s)
          /\ SecretValue(s) > GroupOrder
          /\ SecretValue(s) % GroupOrder # 0
          /\ last.args.signature = SignCmd(s, "b").hex
          /\ last.args.public_key = PublicKeyFromSecretCmd(s).hex
    /\ last.out.valid

\* C2: for accepted secrets s1, s2 and one message m, aggregate-signatures of
\* [sign(s1, m), sign(s2, m)] prints the group element sign(s1 + s2 mod r, m)
\* prints, and verify of it against aggregate-keys of [pub(s1), pub(s2)] and m
\* prints valid = true.
AggregationHomomorphism ==
    (Done("aggregate-signatures") /\ Len(last.args.list) = 2) =>
        \A m \in Messages, s1 \in SecretPool :
            LET sig1 == SignCmd(s1, m)
            IN  (sig1.kind = "ok" /\ last.args.list[1] = sig1.hex) =>
                \A s2 \in SecretPool :
                    LET sig2 == SignCmd(s2, m)
                        sum == SecretOf((SecretValue(s1) + SecretValue(s2)) % GroupOrder)
                        keys == AggregateKeysCmd(<<PublicKeyFromSecretCmd(s1).hex,
                                                   PublicKeyFromSecretCmd(s2).hex>>)
                        check == VerifyCmd(last.out.hex, keys.hex, m)
                    IN  (sig2.kind = "ok" /\ last.args.list[2] = sig2.hex) =>
                        /\ last.out.kind = "ok"
                        /\ DecodeSignature(last.out.hex).ok
                        /\ DecodeSignature(last.out.hex) = DecodeSignature(SignCmd(sum, m).hex)
                        /\ keys.kind = "ok"
                        /\ check.kind = "ok"
                        /\ check.valid

\* The two signatures of secrets 2 and 4 on "b" were aggregated (the sum of
\* the secrets wraps around the group order).
AggregationHomomorphismWitness ==
    /\ Done("aggregate-signatures")
    /\ last.args.list = <<SignCmd(SecretOf(2), "b").hex, SignCmd(SecretOf(4), "b").hex>>
    /\ last.out.kind = "ok"
    /\ last.out.hex = SignCmd(SecretOf(1), "b").hex

\* C3: every encoding error, decode error and entropy failure of any command
\* is reported as an explicit failure value, never as a panic of the process.
ErrorsAreValues == pc = "done" => last.out.kind \in {"ok", "error"}

\* C4: verify on a well-formed signature, a well-formed public key and any
\* message ends with a boolean, never an error, and the boolean is true
\* exactly if pairing(signature, G2 generator) = pairing(H(message), key).
VerifyIsPairingCheck ==
    LET sig == DecodeSignature(last.args.signature)
        key == DecodePublicKey(last.args.public_key)
    IN  (Done("verify") /\ sig.ok /\ key.ok) =>
            /\ last.out.kind = "ok"
            /\ last.out.valid <=>
                  (Pairing(sig.pt, G2Generator)
                     = Pairing(HashToCurve(Expander, last.args.message).pt, key.pt))

\* Verify answered false on well-formed arguments.
VerifyIsPairingCheckWitness ==
    /\ Done("verify")
    /\ DecodeSignature(last.args.signature).ok
    /\ DecodePublicKey(last.args.public_key).ok
    /\ last.out.kind = "ok"
    /\ ~last.out.valid

\* C5: in sign and public-key-from-secret the secret is rejected whenever it
\* decodes to other than 32 bytes or to a value >= the group order r, and is
\* accepted only for values below r.
SecretBelowGroupOrder ==
    LET d == HexDecode(last.args.secret)
        below == Len(d.bytes) = SecretKeyLen /\ BeLess(d.bytes, FpToBeBytes(GroupOrder), 1)
    IN  (Done("sign") \/ Done("public-key-from-secret")) =>
            /\ (d.ok /\ ~below) => last.out.kind # "ok"
            /\ last.out.kind = "ok" => (d.ok /\ below)

\* C6: aggregate-keys of the empty list prints the encoded identity of G2
\* and aggregate-signatures of the empty list the encoded identity of G1.
EmptyAggregateIsIdentity ==
    /\ (Done("aggregate-keys") /\ last.args.list = <<>>) =>
            (last.out.kind = "ok" /\ last.out.hex = HexEncode(G2ToBeBytes(G2Zero)))
    /\ (Done("aggregate-signatures") /\ last.args.list = <<>>) =>
            (last.out.kind = "ok" /\ last.out.hex = HexEncode(G1ToBeBytes(G1Zero)))

\* aggregate-keys ran on the empty list and printed 128 bytes.
EmptyAggregateIsIdentityWitness ==
    /\ Done("aggregate-keys")
    /\ last.args.list = <<>>
    /\ last.out.kind = "ok"
    /\ Len(last.out.hex) = 2 * PublicKeyLen

\* The arguments of the last verify run are the valid triple (sig, key, m)
\* with exactly one of the three replaced by a different well-formed value.
OneReplaced(sig, key, m) ==
    LET a == last.args
    IN  \/ /\ a.message # m
           /\ a.signature = sig
           /\ a.public_key = key
        \/ /\ a.message = m
           /\ DecodeSignature(a.signature).ok
           /\ DecodeSignature(a.signature).pt # DecodeSignature(sig).pt
           /\ a.public_key = key
        \/ /\ a.message = m
           /\ a.signature = sig
           /\ DecodePublicKey(a.public_key).ok
           /\ DecodePublicKey(a.public_key).pt # DecodePublicKey(key).pt

\* Verify prints valid = false on every triple that is the valid triple of a
\* secret of the set with one component replaced.
TamperDetectedFor(secrets) ==
    Done("verify") =>
        \A s \in secrets, m \in Messages :
            LET sig == SignCmd(s, m)
                key == PublicKeyFromSecretCmd(s)
            IN  (sig.kind = "ok" /\ key.kind = "ok" /\ OneReplaced(sig.hex, key.hex, m))
                => (last.out.kind = "ok" /\ ~last.out.valid)

\* C7, as claimed: for every accepted secret s and message m, replacing
\* exactly one of the message, the signature or the public key of the valid
\* triple (sign(s, m), pub(s), m) by a different well-formed value makes verify
\* print valid = false.
TamperSensitivity == TamperDetectedFor(SecretPool)

\* C7, amended: the same for every accepted secret that is not a multiple of
\* the group order r (0 and r sign every message with the identity).
TamperSensitivityNonZero ==
    TamperDetectedFor({s \in SecretPool : Accepted(s) /\ SecretValue(s) % GroupOrder # 0})

\* Verify ran on the signature of secret 3 on "a", the public key of secret 3
\* and the message "c", and answered false.
TamperSensitivityWitness ==
    /\ Done("verify")
    /\ last.args = Args(<<>>, "c", SignCmd(SecretOf(3), "a").hex,
                        PublicKeyFromSecretCmd(SecretOf(3)).hex, <<>>)
    /\ last.out.kind = "ok"
    /\ ~last.out.valid

\* C8: public-key-from-secret run on the secretKey generate-keys printed
\* succeeds and prints exactly the publicKey generate-keys printed.
KeyDerivationConsistency ==
    (/\ Done("public-key-from-secret")
     /\ prev.cmd = "generate-keys"
     /\ prev.out.kind = "ok"
     /\ last.args.secret = prev.out.secretKey)
    => (last.out.kind = "ok" /\ last.out.hex = prev.out.publicKey)

\* A key pair with a secret other than 0 and 1 was generated and its public
\* key derived again.
KeyDerivationConsistencyWitness ==
    /\ Done("public-key-from-secret")
    /\ prev.cmd = "generate-keys"
    /\ prev.out.kind = "ok"
    /\ last.args.secret = prev.out.secretKey
    /\ last.args.secret = SecretOf(3)
    /\ last.out.kind = "ok"

\* C9: two runs of one command other than generate-keys on equal arguments
\* end alike, whatever ran in between, and every expander sign or verify
\* builds carries the one tag and the one security level.
StatelessAndDeterministic ==
    /\ (/\ pc = "done"
        /\ last.cmd # "generate-keys"
        /\ prev.cmd = last.cmd
        /\ prev.args = last.args)
       => last.out = prev.out
    /\ pc = "done" => last.out.expanders \subseteq {XMDExpander(DST, SECURITY_BITS)}
    /\ (pc = "done" /\ last.cmd \in {"sign", "verify"} /\ last.out.kind = "ok")
       => last.out.expanders = {XMDExpander(DST, SECURITY_BITS)}

\* Sign ran twice on the same arguments.
StatelessAndDeterministicWitness ==
    /\ Done("sign")
    /\ prev.cmd = "sign"
    /\ prev.args = last.args
    /\ last.out.kind = "ok"
    /\ last.out.hex # SigOf(0)

\* The index of the first element of a list that fails to decode; 0: none.
FirstInvalid(ok) ==
    IF \E i \in DOMAIN ok : ~ok[i]
    THEN CHOOSE i \in DOMAIN ok : ~ok[i] /\ \A j \in 1..(i - 1) : ok[j]
    ELSE 0

\* The sum in the group of a list of points.
RECURSIVE GroupSum(_)
GroupSum(pts) == IF pts = <<>> THEN 0 ELSE (Head(pts) + GroupSum(Tail(pts))) % GroupOrder

\* C10: aggregate-keys and aggregate-signatures end in failure at the first
\* element, from the left, that fails hex decoding, the length check or the
\* point validation, and print nothing then; when every element is valid they
\* print the group sum of all of them.
AggregationAllOrNothing ==
    /\ Done("aggregate-keys") =>
          LET d == [i \in DOMAIN last.args.list |-> DecodePublicKey(last.args.list[i])]
              bad == FirstInvalid([i \in DOMAIN d |-> d[i].ok])
          IN  IF bad # 0
              THEN last.out = Panic(d[bad].msg, bad, {})
              ELSE last.out = PrintHex(PkOf(GroupSum([i \in DOMAIN d |-> d[i].pt])), {})
    /\ Done("aggregate-signatures") =>
          LET d == [i \in DOMAIN last.args.list |-> DecodeSignature(last.args.list[i])]
              bad == FirstInvalid([i \in DOMAIN d |-> d[i].ok])
          IN  IF bad # 0
              THEN last.out = Panic(d[bad].msg, bad, {})
              ELSE last.out = PrintHex(SigOf(GroupSum([i \in DOMAIN d |-> d[i].pt])), {})

\* aggregate-keys stopped at the second of two elements, the first being a
\* valid key other than the identity.
AggregationAllOrNothingWitness ==
    /\ Done("aggregate-keys")
    /\ Len(last.args.list) = 2
    /\ DecodePublicKey(last.args.list[1]).ok
    /\ DecodePublicKey(last.args.list[1]).pt # G2Zero
    /\ last.out.kind = "panic"
    /\ last.out.at = 2

=============================================================================
